---- MODULE Spec2Model ----
(***************************************************************************)
(* scripts/program.py: one invocation of Main.flash over the registry of   *)
(* Programmers (three OpenOCDProgrammer, one BlackmagicUSBProgrammer),     *)
(* the child processes they launch and the pipes they capture.             *)
(*                                                                         *)
(* Python values: None is the empty tuple <<>>, a present value x is <<x>>.*)
(* A string the code builds or searches is a tuple of its words.           *)
(* The external tools (openocd, arm-none-eabi-gdb, pyserial) are taken to  *)
(* be installed: Popen and the import at line 195 do not fail.             *)
(***************************************************************************)
EXTENDS Integers, Sequences, FiniteSets, TLC

\* ---------------------------------------------------------------- bounds
\* exit codes a child may end with: 0..MaxExitCode
MaxExitCode == 1
\* words a child may want to write before it exits
MaxOut == 3
\* words an OS pipe holds before a writer blocks
PipeCap == 2
\* serial devices that may match "blackmagic"
MaxDevices == 3
\* probe() calls made on one BlackmagicUSBProgrammer taken on its own
MaxProbeCalls == 9

None == <<>>
Some(x) == <<x>>

\* ------------------------------------------------------------- registry
OpenOCDInterface(name, file, serial_cmd, additional_args) ==
    [name |-> name, file |-> file, serial_cmd |-> serial_cmd,
     additional_args |-> additional_args]

programmers ==
    << [kind |-> "OpenOCDProgrammer",
        interface |-> OpenOCDInterface("jlink", "interface/jlink.cfg",
                          "jlink_serial", << <<"transport", "select", "swd">> >>)],
       [kind |-> "OpenOCDProgrammer",
        interface |-> OpenOCDInterface("cmsis-dap", "interface/cmsis-dap.cfg",
                          "cmsis_dap_serial", << <<"transport", "select", "swd">> >>)],
       [kind |-> "OpenOCDProgrammer",
        interface |-> OpenOCDInterface("stlink", "interface/stlink.cfg",
                          "hla_serial", << <<"transport", "select", "hla_swd">> >>)],
       [kind |-> "BlackmagicUSBProgrammer"] >>

\* Programmer objects are referred to by their position in the registry.
Registry == DOMAIN programmers

get_name(p) ==
    IF programmers[p].kind = "OpenOCDProgrammer"
    THEN programmers[p].interface.name
    ELSE "blackmagic_usb"

IsOpenOCD(p) == programmers[p].kind = "OpenOCDProgrammer"

\* ------------------------------------------------------------ inputs
\* A path is the tuple of its pieces; ".bin" is the piece str.replace looks for.
BinPaths == { <<"fw", ".bin">>, <<"fw", ".hex">> }

\* self.args.interface: absent, a registered name, or any other string.
\* Main.flash reads the value as given; the choices list of line 256 is
\* applied by the argument parser, before and outside Main.flash.
InterfaceArgs == {None} \cup { Some(get_name(p)) : p \in Registry } \cup {Some("picoprobe")}

ExitCodes == 0 .. MaxExitCode

\* What the tools print, word by word.
LoadMarker == "Loading section .text,"
MismatchMarker == "MIS-MATCHED!"
Whitespace == " "
ToolWords(tool) ==
    IF tool = "arm-none-eabi-gdb"
    THEN {LoadMarker, MismatchMarker, Whitespace}
    ELSE {"text"}

\* Serial devices whose description matches "blackmagic": device d has the
\* path d, and a location and a name that order the devices differently
\* from their paths.
Location(d) == (d + 1) % 2
PortName(d) == d
Devices == { [device |-> d, location |-> Location(d), name |-> PortName(d)] : d \in 1 .. MaxDevices }

OsNames == {"nt", "posix"}

\* ------------------------------------------------------------- state
VARIABLES
    args_bin,          \* self.args.bin
    args_interface,    \* self.args.interface
    fs,                \* the files that exist
    pc,                \* where Main.flash is
    idx,               \* _search_interface: the registry position of p
    found_programmers, \* _search_interface: found_programmers
    interfaces,        \* Main.flash: interfaces
    procs,             \* every child process launched so far, in launch order
    port,              \* BlackmagicUSBProgrammer.port
    ports,             \* the devices the last list_ports.grep returned
    output,            \* BlackmagicUSBProgrammer.flash: output
    log,               \* the records handed to the loggers
    dots,              \* whether a progress dot has been printed
    probeCalls,        \* the Programmers probe() was called on, in order
    flashCalls,        \* the (Programmer, bin) pairs flash() was called with
    probeRet,          \* what each Programmer's last probe() did
    flashRet,          \* what the flash() call did
    ret,               \* what Main.flash returned
    exc                \* the exception that left Main.flash

vars == << args_bin, args_interface, fs, pc, idx, found_programmers, interfaces,
           procs, port, ports, output, log, dots, probeCalls, flashCalls,
           probeRet, flashRet, ret, exc >>

\* ------------------------------------------------------------- logging
Record(level, logger, msg, arg) == [level |-> level, logger |-> logger, msg |-> msg, arg |-> arg]

\* ------------------------------------------------------ string helpers
RECURSIVE LStrip(_)
LStrip(s) == IF s # <<>> /\ Head(s) = Whitespace THEN LStrip(Tail(s)) ELSE s

RECURSIVE RStrip(_)
RStrip(s) ==
    IF s # <<>> /\ s[Len(s)] = Whitespace THEN RStrip(SubSeq(s, 1, Len(s) - 1)) ELSE s

\* str.strip(): leading and trailing whitespace removed
Strip(s) == RStrip(LStrip(s))

\* marker in output
Contains(s, marker) == \E i \in DOMAIN s : s[i] = marker

\* bin.replace(".bin", ".elf")
Elf(bin) == [i \in DOMAIN bin |-> IF bin[i] = ".bin" THEN ".elf" ELSE bin[i]]

\* faulty variant: every path is taken to exist
ExistsAlways(path) == TRUE

\* os.path.exists
Exists(path) == path \in fs

\* -------------------------------------------------------- child processes
\* subprocess.Popen: a running child with `pending` words still to write;
\* stderr is its own pipe ("PIPE") or shares the stdout pipe ("STDOUT").
Popen(argv, stderr, pending) ==
    [argv |-> argv, stderr |-> stderr, state |-> "running", pending |-> pending,
     returncode |-> None, out |-> <<>>, err |-> <<>>, wrote |-> <<>>]

\* the pipe a write to file descriptor fd (1 or 2) lands in
Route(proc, fd) == IF fd = 2 /\ proc.stderr = "PIPE" THEN "err" ELSE "out"

\* The child writes one word; it cannot while the pipe is full.
ChildWrite ==
    \E k \in DOMAIN procs :
      /\ procs[k].state = "running"
      /\ procs[k].pending > 0
      /\ \E fd \in {1, 2}, w \in ToolWords(procs[k].argv[1][1]) :
           LET p == procs[k]
               to == Route(p, fd)
           IN /\ Len(p[to]) < PipeCap
              /\ procs' = [procs EXCEPT ![k] =
                             [p EXCEPT ![to] = Append(p[to], w),
                                       !.wrote = IF to = "out" THEN Append(p.wrote, w) ELSE p.wrote,
                                       !.pending = p.pending - 1]]
      /\ UNCHANGED << args_bin, args_interface, fs, pc, idx, found_programmers,
                      interfaces, port, ports, output, log, dots, probeCalls,
                      flashCalls, probeRet, flashRet, ret, exc >>

\* The child has written all it wanted and exits with some code.
ChildExit ==
    \E k \in DOMAIN procs, rc \in ExitCodes :
      /\ procs[k].state = "running"
      /\ procs[k].pending = 0
      /\ procs' = [procs EXCEPT ![k].state = "exited", ![k].returncode = Some(rc)]
      /\ UNCHANGED << args_bin, args_interface, fs, pc, idx, found_programmers,
                      interfaces, port, ports, output, log, dots, probeCalls,
                      flashCalls, probeRet, flashRet, ret, exc >>

\* faulty variant: the parent goes on without waiting for the child
ExitedOrNot(process) == TRUE

\* process.wait() has returned (line 107), process.poll() is not None (lines 72, 172)
Exited(process) == process.state = "exited"

\* The Popen object of a finished probe() goes out of scope: its pipes are
\* closed and its return code is gone; that the child ran stays on record.
Reap(proc) == [proc EXCEPT !.out = <<>>, !.err = <<>>, !.wrote = <<>>, !.returncode = None]

Last(s) == s[Len(s)]

\* ------------------------------------------------------------- Init
Init ==
    /\ args_bin \in BinPaths
    /\ args_interface \in InterfaceArgs
    /\ fs \in SUBSET {args_bin, Elf(args_bin)}
    /\ pc = "start"
    /\ idx = 0
    /\ found_programmers = <<>>
    /\ interfaces = <<>>
    /\ procs = <<>>
    /\ port = None
    /\ ports = {}
    /\ output = <<>>
    /\ log = <<>>
    /\ dots = FALSE
    /\ probeCalls = <<>>
    /\ flashCalls = <<>>
    /\ probeRet = [p \in Registry |-> "not called"]
    /\ flashRet = "not called"
    /\ ret = None
    /\ exc = None

\* ------------------------------------------------- OpenOCDProgrammer
add_file(params, file) == params \o << <<"-f">>, <<file>> >>

add_command(params, command) == params \o << <<"-c">>, command >>

RECURSIVE add_commands(_, _)
add_commands(params, commands) ==
    IF commands = <<>> THEN params
    ELSE add_commands(add_command(params, Head(commands)), Tail(commands))

\* the launch parameters up to and including "init", common to flash and probe
OpenOCDInitParams(i) ==
    add_command(
      add_file(
        add_commands(add_file(<< <<"openocd">> >>, i.file), i.additional_args),
        "target/stm32wbx.cfg"),
      <<"init">>)

OpenOCDFlashParams(i, bin) ==
    add_command(OpenOCDInitParams(i), <<"program", bin, "reset", "exit", "0x8000000">>)

\* faulty variant: the probe is launched with the directive of flash
OpenOCDProbeParamsProgram(i) == add_command(OpenOCDInitParams(i), <<"program", "reset", "exit", "0x8000000">>)

OpenOCDProbeParams(i) == add_command(OpenOCDInitParams(i), <<"exit">>)

\* faulty variant: any exit of the child counts as success
SuccessOnExit(returncode) == returncode # None

\* success = process.returncode == 0 (flash), found = process.returncode == 0 (probe)
Success(returncode) == returncode = Some(0)

\* ------------------------------------------- BlackmagicUSBProgrammer
add_ex(params, command) == params \o << <<"-ex">>, command >>

GdbParams(elf, prt) ==
    add_ex(add_ex(add_ex(add_ex(add_ex(add_ex(add_ex(add_ex(
      << <<"arm-none-eabi-gdb">>, <<elf>> >>,
      <<"target", "extended-remote", prt>>),
      <<"set", "confirm", "off">>),
      <<"monitor", "swdp_scan">>),
      <<"attach", "1">>),
      <<"set", "mem", "inaccessible-by-default", "off">>),
      <<"load">>),
      <<"compare-sections">>),
      <<"quit">>)

\* sorted(ports, key=lambda p: f"{p.location}_{p.name}"): the order of the keys
KeyLess(a, b) ==
    \/ a.location < b.location
    \/ a.location = b.location /\ a.name < b.name

\* sorted(...)[0]
FirstSorted(ps) == CHOOSE a \in ps : \A b \in ps \ {a} : KeyLess(a, b)

\* elif len(ports) > 2
TooManyProbes(n) == n > 2

\* _find_probe: raises, returns None, or returns one port
find_probe(ps) ==
    IF Cardinality(ps) = 0 THEN [raised |-> FALSE, probe |-> None]
    ELSE IF TooManyProbes(Cardinality(ps)) THEN [raised |-> TRUE, probe |-> None]
    ELSE [raised |-> FALSE, probe |-> Some(FirstSorted(ps))]

\* lines 212-214: the Windows form is assigned and then overwritten
PortOf(os, probe) ==
    LET nt == IF os = "nt" THEN Some(<<"\\\\.\\", probe.device>>) ELSE port
        posix == Some(probe.device)
    IN posix

\* faulty variant: a probe that finds nothing forgets the cached port
BlackmagicProbeClearing(ps, os) ==
    LET probe == find_probe(ps)
    IN [raised |-> probe.raised,
        found |-> probe.probe # None,
        port |-> IF probe.probe = None THEN None ELSE PortOf(os, probe.probe[1])]

\* probe(): what it does with the devices ps on the operating system os
BlackmagicProbe(ps, os) ==
    LET probe == find_probe(ps)
    IN [raised |-> probe.raised,
        found |-> probe.probe # None,
        port |-> IF probe.probe = None THEN port ELSE PortOf(os, probe.probe[1])]

ProbeOutcome(r) == IF r.raised THEN "raised" ELSE IF r.found THEN "true" ELSE "false"

AmbiguityError == "More than one Blackmagic probe found"

\* faulty variant: flash() probes whether or not a port is cached
NeedsProbeAlways(prt) == TRUE

\* line 130: if not self.port
NeedsProbe(prt) == prt = None

\* faulty variant: the exception of probe() is swallowed by its caller
RaisesNever(r) == FALSE

\* lines 269 and 131: the callers of probe() have no handler, its exception leaves them
Raises(r) == r.raised

\* faulty variant: the companion file is not looked for
MissingElfNever(elf) == FALSE

\* line 138: if not os.path.exists(elf)
MissingElf(elf) == ~Exists(elf)

\* faulty variant: only the load marker is looked for
FlashedLoadOnly(out) == Contains(out, LoadMarker)

\* flashed: the load marker is in the output and the mismatch marker is not
Flashed(out) == Contains(out, LoadMarker) /\ ~Contains(out, MismatchMarker)

\* --------------------------------------------------------------- Main
\* faulty variant: the name is not compared, the whole registry is selected
SelectAll(name) == [p \in Registry |-> p]

\* [p for p in programmers if p.get_name() == self.args.interface]
SelectByName(name) == SelectSeq([p \in Registry |-> p], LAMBDA p : get_name(p) = name)

Names(ps) == [k \in DOMAIN ps |-> get_name(ps[k])]

\* lines 278-282: the binary does not exist
BinaryNotFound ==
    /\ pc = "start"
    /\ ~Exists(args_bin)
    /\ log' = Append(log, Record("error", "Main", "Binary file not found", <<args_bin>>))
    /\ ret' = Some(1)
    /\ pc' = "done"
    /\ UNCHANGED << args_bin, args_interface, fs, idx, found_programmers, interfaces,
                    procs, port, ports, output, dots, probeCalls, flashCalls,
                    probeRet, flashRet, exc >>

\* lines 284-285: an interface was named
ExplicitSelect ==
    /\ pc = "start"
    /\ Exists(args_bin)
    /\ args_interface # None
    /\ interfaces' = SelectByName(args_interface[1])
    /\ pc' = "flash_call"
    /\ UNCHANGED << args_bin, args_interface, fs, idx, found_programmers, procs, port,
                    ports, output, log, dots, probeCalls, flashCalls, probeRet,
                    flashRet, ret, exc >>

\* lines 286-288, 263-265: no interface named, _search_interface begins
BeginSearch ==
    /\ pc = "start"
    /\ Exists(args_bin)
    /\ args_interface = None
    /\ log' = Append(log, Record("info", "Main", "Probing for interfaces...", <<>>))
    /\ found_programmers' = <<>>
    /\ idx' = 1
    /\ pc' = "search"
    /\ UNCHANGED << args_bin, args_interface, fs, interfaces, procs, port, ports,
                    output, dots, probeCalls, flashCalls, probeRet, flashRet, ret, exc >>

\* faulty variant: every Programmer tried is collected
CollectAll(found_list, p, found) == found_list \o <<p>>

\* lines 269-271: if p.probe(): found_programmers += [p]
Collect(found_list, p, found) == IF found THEN found_list \o <<p>> ELSE found_list

\* faulty variant: nothing found is not told apart
NoneFoundNever(found_list) == FALSE

\* line 290: len(interfaces) == 0
NoneFound(found_list) == Len(found_list) = 0

\* faulty variant: two found are let through
ManyFoundOffByOne(found_list) == Len(found_list) > 2

\* line 294: len(interfaces) > 1
ManyFound(found_list) == Len(found_list) > 1

\* lines 269-275: p.probe() returned `found`; the loop goes on or ends
SearchStep(p, found, logged) ==
    /\ log' = Append(logged, Record("debug", "Main",
                 IF found THEN "Found" ELSE "Failed to probe", <<get_name(p)>>))
    /\ found_programmers' = Collect(found_programmers, p, found)
    /\ idx' = p + 1
    /\ pc' = IF p = Len(programmers) THEN "arbitrate" ELSE "search"

\* lines 266-269, 86-104: OpenOCDProgrammer.probe launches its child
ProbeOpenOCDLaunch ==
    /\ pc = "search"
    /\ IsOpenOCD(idx)
    /\ \E n \in 0 .. MaxOut :
         LET argv == OpenOCDProbeParams(programmers[idx].interface)
         IN /\ procs' = Append(procs, Popen(argv, "PIPE", n))
            /\ log' = log \o << Record("debug", "Main", "Trying", <<get_name(idx)>>),
                                Record("debug", "OpenOCD", "Launching", argv) >>
    /\ probeCalls' = Append(probeCalls, idx)
    /\ pc' = "probe_wait"
    /\ UNCHANGED << args_bin, args_interface, fs, idx, found_programmers, interfaces,
                    port, ports, output, dots, flashCalls, probeRet, flashRet, ret, exc >>

\* lines 107-114, 269-275: process.wait() returns, probe() returns
ProbeOpenOCDReturn ==
    /\ pc = "probe_wait"
    /\ Exited(Last(procs))
    /\ LET process == Last(procs)
           found == Success(process.returncode)
           logged == IF found THEN log
                     ELSE Append(log, Record("debug", "OpenOCD", "stderr", Strip(process.err)))
       IN /\ SearchStep(idx, found, logged)
          /\ probeRet' = [probeRet EXCEPT ![idx] = IF found THEN "true" ELSE "false"]
          /\ procs' = [procs EXCEPT ![Len(procs)] = Reap(process)]
    /\ UNCHANGED << args_bin, args_interface, fs, interfaces, port, ports, output,
                    dots, probeCalls, flashCalls, flashRet, ret, exc >>

\* lines 266-269, 194-215: BlackmagicUSBProgrammer.probe
ProbeBlackmagic ==
    /\ pc = "search"
    /\ ~IsOpenOCD(idx)
    /\ \E ps \in SUBSET Devices, os \in OsNames :
         LET r == BlackmagicProbe(ps, os)
             logged == Append(log, Record("debug", "Main", "Trying", <<get_name(idx)>>))
         IN /\ ports' = ps
            /\ port' = r.port
            /\ probeRet' = [probeRet EXCEPT ![idx] = ProbeOutcome(r)]
            /\ IF Raises(r)
               THEN /\ pc' = "raised"
                    /\ exc' = Some(AmbiguityError)
                    /\ log' = logged
                    /\ UNCHANGED << idx, found_programmers >>
               ELSE /\ SearchStep(idx, r.found, logged)
                    /\ exc' = exc
    /\ probeCalls' = Append(probeCalls, idx)
    /\ UNCHANGED << args_bin, args_interface, fs, interfaces, procs, output, dots,
                    flashCalls, flashRet, ret >>

\* lines 288-299: the result of _search_interface is judged
Arbitrate ==
    /\ pc = "arbitrate"
    /\ interfaces' = found_programmers
    /\ IF NoneFound(found_programmers)
       THEN /\ log' = Append(log, Record("error", "Main", "No interface found", <<>>))
            /\ ret' = Some(1)
            /\ pc' = "done"
       ELSE IF ManyFound(found_programmers)
       THEN /\ log' = log \o << Record("error", "Main", "Multiple interfaces found: ", <<>>),
                                Record("error", "Main", "Please specify '--interface='",
                                       Names(found_programmers)) >>
            /\ ret' = Some(1)
            /\ pc' = "done"
       ELSE /\ pc' = "flash_call"
            /\ UNCHANGED << log, ret >>
    /\ UNCHANGED << args_bin, args_interface, fs, idx, found_programmers, procs, port,
                    ports, output, dots, probeCalls, flashCalls, probeRet, flashRet, exc >>

\* lines 303-308: interface.flash(...) returned `flashed`; Main.flash returns
MainReturn(flashed, logged) ==
    /\ flashRet' = IF flashed THEN "true" ELSE "false"
    /\ log' = Append(logged, IF flashed
                             THEN Record("info", "Main", "Flashed successfully", <<>>)
                             ELSE Record("error", "Main", "Failed to flash", <<>>))
    /\ ret' = IF flashed THEN Some(0) ELSE Some(1)
    /\ pc' = "done"

Flashing(p) == Record("info", "Main", "Flashing", <<args_bin, get_name(p)>>)

\* line 301: interfaces[0] of an empty list
SelectIndexError ==
    /\ pc = "flash_call"
    /\ interfaces = <<>>
    /\ pc' = "raised"
    /\ exc' = Some("IndexError")
    /\ UNCHANGED << args_bin, args_interface, fs, idx, found_programmers, interfaces,
                    procs, port, ports, output, log, dots, probeCalls, flashCalls,
                    probeRet, flashRet, ret >>

\* lines 301-303, 52-70: OpenOCDProgrammer.flash launches its child
FlashOpenOCDLaunch ==
    /\ pc = "flash_call"
    /\ interfaces # <<>>
    /\ IsOpenOCD(interfaces[1])
    /\ \E n \in 0 .. MaxOut :
         LET interface == interfaces[1]
             argv == OpenOCDFlashParams(programmers[interface].interface, args_bin)
         IN /\ procs' = Append(procs, Popen(argv, "STDOUT", n))
            /\ log' = log \o << Flashing(interface),
                                Record("debug", "OpenOCD", "Launching", argv) >>
            /\ flashCalls' = Append(flashCalls, <<interface, args_bin>>)
    /\ pc' = "openocd_flash_poll"
    /\ UNCHANGED << args_bin, args_interface, fs, idx, found_programmers, interfaces,
                    port, ports, output, dots, probeCalls, probeRet, flashRet, ret, exc >>

\* lines 72-74 and 172-174: the child still runs, a dot is printed
FlashPoll ==
    /\ pc \in {"openocd_flash_poll", "blackmagic_flash_poll"}
    /\ Last(procs).state = "running"
    /\ dots' = TRUE
    /\ UNCHANGED << args_bin, args_interface, fs, pc, idx, found_programmers, interfaces,
                    procs, port, ports, output, log, probeCalls, flashCalls, probeRet,
                    flashRet, ret, exc >>

\* lines 75-84, 303-308: the child has ended, OpenOCDProgrammer.flash returns
FlashOpenOCDReturn ==
    /\ pc = "openocd_flash_poll"
    /\ Exited(Last(procs))
    /\ LET process == Last(procs)
           success == Success(process.returncode)
       IN IF success
          THEN /\ MainReturn(TRUE, log)
               /\ procs' = procs
          ELSE /\ MainReturn(FALSE,
                    log \o << Record("error", "OpenOCD", "OpenOCD failed to flash", <<>>),
                              Record("error", "OpenOCD", "output", Strip(process.out)) >>)
               /\ procs' = [procs EXCEPT ![Len(procs)].out = <<>>]
    /\ UNCHANGED << args_bin, args_interface, fs, idx, found_programmers, interfaces,
                    port, ports, output, dots, probeCalls, flashCalls, probeRet, exc >>

\* lines 301-303, 129-170: BlackmagicUSBProgrammer.flash up to the launch of gdb
FlashBlackmagic ==
    /\ pc = "flash_call"
    /\ interfaces # <<>>
    /\ ~IsOpenOCD(interfaces[1])
    /\ \E ps \in SUBSET Devices, os \in OsNames, n \in 0 .. MaxOut :
         LET interface == interfaces[1]
             probing == NeedsProbe(port)
             r == BlackmagicProbe(ps, os)
             elf == Elf(args_bin)
             logged == Append(log, Flashing(interface))
         IN /\ flashCalls' = Append(flashCalls, <<interface, args_bin>>)
            /\ probeCalls' = IF probing THEN Append(probeCalls, interface) ELSE probeCalls
            /\ probeRet' = IF probing THEN [probeRet EXCEPT ![interface] = ProbeOutcome(r)]
                           ELSE probeRet
            /\ ports' = IF probing THEN ps ELSE ports
            /\ port' = IF probing THEN r.port ELSE port
            /\ IF probing /\ Raises(r)
               THEN /\ pc' = "raised"
                    /\ exc' = Some(AmbiguityError)
                    /\ flashRet' = "raised"
                    /\ log' = logged
                    /\ UNCHANGED << procs, ret >>
               ELSE IF probing /\ ~r.found
               THEN /\ MainReturn(FALSE, logged)
                    /\ UNCHANGED << procs, exc >>
               ELSE IF MissingElf(elf)
               THEN /\ MainReturn(FALSE, Append(logged,
                         Record("error", "BlackmagicUSB", "Sorry, but Blackmagic can't flash .bin file", <<elf>>)))
                    /\ UNCHANGED << procs, exc >>
               ELSE LET argv == GdbParams(elf, port'[1])
                    IN /\ procs' = Append(procs, Popen(argv, "STDOUT", n))
                       /\ log' = Append(logged, Record("debug", "BlackmagicUSB", "Launching", argv))
                       /\ pc' = "blackmagic_flash_poll"
                       /\ UNCHANGED << flashRet, ret, exc >>
    /\ UNCHANGED << args_bin, args_interface, fs, idx, found_programmers, interfaces,
                    output, dots >>

\* lines 175-192, 303-308: the child has ended, BlackmagicUSBProgrammer.flash returns
\* (process.stdout is the pipe asked for at line 168, so line 177 never returns)
FlashBlackmagicReturn ==
    /\ pc = "blackmagic_flash_poll"
    /\ Exited(Last(procs))
    /\ LET process == Last(procs)
           read == Strip(process.out)
           flashed == Flashed(read)
       IN /\ output' = read
          /\ procs' = [procs EXCEPT ![Len(procs)].out = <<>>]
          /\ MainReturn(flashed,
               IF flashed THEN log
               ELSE log \o << Record("error", "BlackmagicUSB", "Blackmagic failed to flash", <<>>),
                              Record("error", "BlackmagicUSB", "output", read) >>)
    /\ UNCHANGED << args_bin, args_interface, fs, idx, found_programmers, interfaces,
                    port, ports, dots, probeCalls, flashCalls, probeRet, exc >>

Next ==
    \/ BinaryNotFound
    \/ ExplicitSelect
    \/ BeginSearch
    \/ ProbeOpenOCDLaunch
    \/ ProbeOpenOCDReturn
    \/ ProbeBlackmagic
    \/ Arbitrate
    \/ SelectIndexError
    \/ FlashOpenOCDLaunch
    \/ FlashPoll
    \/ FlashOpenOCDReturn
    \/ FlashBlackmagic
    \/ FlashBlackmagicReturn
    \/ ChildWrite
    \/ ChildExit

Spec == Init /\ [][Next]_vars

\* Main.flash has ended, by a return or by an exception
Ended == pc \in {"done", "raised"}

\* ------------------------------------------------------------ claims
Blackmagic == Len(programmers)

\* no interface named and the binary exists
AutoProbe == args_interface = None /\ args_bin \in fs

ProbedTrue == { p \in Registry : probeRet[p] = "true" }

NoProbeRaised == \A p \in Registry : probeRet[p] # "raised"

\* the "Please specify" error record names every Programmer of ps
MultipleMessageNames(ps) ==
    \E i \in DOMAIN log :
      /\ log[i].level = "error"
      /\ log[i].msg = "Please specify '--interface='"
      /\ \A p \in ps : Contains(log[i].arg, get_name(p))

IsGdb(proc) == proc.argv[1] = <<"arm-none-eabi-gdb">>

IsProgram(proc) == Last(proc.argv)[1] = "program"

\* the flash() call was made on the USB adapter
BlackmagicFlashCalled == flashCalls # <<>> /\ flashCalls[1][1] = Blackmagic

GdbLaunched == \E k \in DOMAIN procs : IsGdb(procs[k])

C3_NoneFound ==
    (AutoProbe /\ \A p \in Registry : probeRet[p] = "false")
      => /\ flashCalls = <<>>
         /\ pc \in {"arbitrate", "done"}
         /\ pc = "done" => ret = Some(1)

C3_Witness ==
    /\ pc = "done"
    /\ AutoProbe
    /\ \A p \in Registry : probeRet[p] = "false"

\* C4: if the binary path does not exist, the invocation fails at once with
\* status 1: no probe(), no flash(), no child process, with or without an
\* interface name.
C4_BinaryMissing ==
    args_bin \notin fs
      => /\ probeCalls = <<>>
         /\ flashCalls = <<>>
         /\ procs = <<>>
         /\ pc \in {"start", "done"}
         /\ pc = "done" => ret = Some(1)

C4_Witness ==
    /\ args_bin \notin fs
    /\ args_interface # None
    /\ pc = "done"
    /\ ret = Some(1)

\* C5 as stated: whenever two or more devices match, the USB adapter's
\* probe() raises, selects none of them and caches no port.
C5_AsStated ==
    (probeRet[Blackmagic] # "not called" /\ Cardinality(ports) >= 2)
      => probeRet[Blackmagic] = "raised" /\ port = None

\* C6: when the USB adapter's flash() has launched gdb and returned, it
\* returned true exactly if the child wrote the load marker and did not
\* write the mismatch marker.
C6_Markers ==
    (pc = "done" /\ GdbLaunched)
      => LET wrote == Last(procs).wrote
         IN flashRet = IF Contains(wrote, LoadMarker) /\ ~Contains(wrote, MismatchMarker)
                       THEN "true" ELSE "false"

C6_Witness ==
    /\ pc = "done"
    /\ GdbLaunched
    /\ Contains(Last(procs).wrote, LoadMarker)
    /\ Contains(Last(procs).wrote, MismatchMarker)
    /\ flashRet = "false"

\* the captured output of the flash child was logged at error level
OutputLoggedAsError ==
    \E i \in DOMAIN log :
      /\ log[i].level = "error"
      /\ log[i].msg = "output"
      /\ log[i].arg = Strip(Last(procs).wrote)

\* C7 as stated: for every backend, a flash child that exits with a
\* non-zero code makes flash() return false, with the captured output
\* logged at error level.
C7_AsStated ==
    (pc = "done" /\ procs # <<>> /\ (IsGdb(Last(procs)) \/ IsProgram(Last(procs)))
       /\ Last(procs).returncode # Some(0))
      => flashRet = "false" /\ OutputLoggedAsError

\* C8: OpenOCDProgrammer's probe() and flash() return true exactly if their
\* child exits with code 0; on another code flash() returns false and logs
\* the captured output at error level, and probe() returns false, logs at
\* debug level only and does not raise.
C8_OpenOCDExitCode ==
    [][ LET process == Last(procs)
            zero == process.returncode = Some(0)
            new == (Len(log) + 1) .. Len(log')
        IN /\ (pc = "probe_wait" /\ pc' # "probe_wait")
                => /\ probeRet'[idx] = IF zero THEN "true" ELSE "false"
                   /\ pc' # "raised"
                   /\ \A i \in new : log'[i].level = "debug"
           /\ (pc = "openocd_flash_poll" /\ pc' # "openocd_flash_poll")
                => /\ flashRet' = IF zero THEN "true" ELSE "false"
                   /\ ~zero => \E i \in new :
                                 /\ log'[i].level = "error"
                                 /\ log'[i].logger = "OpenOCD"
                                 /\ log'[i].msg = "output"
                                 /\ log'[i].arg = Strip(process.wrote)
      ]_vars

C8_Witness ==
    /\ pc = "done"
    /\ AutoProbe
    /\ probeRet[1] = "false"
    /\ IsProgram(Last(procs))
    /\ Last(procs).returncode # Some(0)
    /\ Last(procs).wrote # <<>>
    /\ flashRet = "false"

\* the USB adapter logged its missing-file error
MissingElfLogged ==
    \E i \in DOMAIN log : log[i].level = "error" /\ log[i].logger = "BlackmagicUSB"

\* C9 as stated: whenever the companion .elf file does not exist, the USB
\* adapter's flash() logs an error and returns false, and launches no child.
C9_AsStated ==
    (Ended /\ BlackmagicFlashCalled /\ Elf(args_bin) \notin fs)
      => /\ flashRet = "false"
         /\ MissingElfLogged
         /\ ~GdbLaunched

\* C9 (amended): when the companion file (the binary path with ".bin"
\* replaced by ".elf") does not exist, the USB adapter's flash() launches no
\* child and does not return true; with a port at hand (cached, or just
\* found by its own probe) it logs an error and returns false; when its
\* own probe finds no device it returns false before the file is looked at.
C9_MissingElf ==
    (BlackmagicFlashCalled /\ Elf(args_bin) \notin fs)
      => /\ ~GdbLaunched
         /\ Ended
         /\ flashRet \in {"false", "raised"}
         /\ port # None => flashRet = "false" /\ MissingElfLogged
         /\ probeRet[Blackmagic] = "false" => flashRet = "false" /\ ~MissingElfLogged
         /\ flashRet = "raised" <=> probeRet[Blackmagic] = "raised"

C9_Witness ==
    /\ BlackmagicFlashCalled
    /\ Elf(args_bin) \notin fs
    /\ port # None
    /\ flashRet = "false"
    /\ MissingElfLogged

Succeeded == args_bin \in fs /\ Len(interfaces) = 1 /\ flashRet = "true"

\* C11 as stated: every invocation of Main.flash ends with status 0 or 1,
\* and with 0 exactly if the binary existed, one Programmer was selected and
\* its flash() returned true.
C11_AsStated ==
    Ended => /\ pc = "done"
             /\ ret \in {Some(0), Some(1)}
             /\ ret = Some(0) <=> Succeeded

\* a command of the argument list that writes the target's flash
IsFlashDirective(command) == command # <<>> /\ command[1] \in {"program", "load"}

HasFlashDirective(argv) == \E i \in DOMAIN argv : IsFlashDirective(argv[i])

\* C12: no child process launched by a probe() carries a "program" or
\* "load" directive: until flash() is called, no launched command line has
\* one, and each probe() of an OpenOCDProgrammer has launched one child.
C12_ProbeDoesNotProgram ==
    flashCalls = <<>>
      => /\ \A k \in DOMAIN procs : ~HasFlashDirective(procs[k].argv)
         /\ Len(procs) = Cardinality({ i \in DOMAIN probeCalls : IsOpenOCD(probeCalls[i]) })

C12_Witness ==
    /\ pc = "arbitrate"
    /\ Len(procs) = 3
    /\ probeCalls = <<1, 2, 3, 4>>
    /\ flashCalls = <<>>

Running == { k \in DOMAIN procs : procs[k].state = "running" }

RegistryOrder == [p \in Registry |-> p]

IsPrefix(s, t) == Len(s) <= Len(t) /\ \A i \in DOMAIN s : s[i] = t[i]

\* C13: auto-probe calls probe() once on each Programmer in registry order,
\* whether or not an earlier one was found, and one child at a time: a
\* child is launched only when every earlier child has ended, so no two
\* children are ever alive together.
C13_SequentialProbes ==
    /\ Cardinality(Running) <= 1
    /\ \A k \in DOMAIN procs : k < Len(procs) => procs[k].state = "exited"
    /\ AutoProbe
         => /\ IsPrefix(probeCalls, RegistryOrder)
            /\ pc \notin {"start", "search", "probe_wait"} => probeCalls = RegistryOrder

C13_Witness ==
    /\ AutoProbe
    /\ pc = "arbitrate"
    /\ probeRet[1] = "true"
    /\ probeCalls = RegistryOrder
    /\ Len(procs) = 3

\* C14: with a registered interface name (and the binary there), exactly
\* that one Programmer is selected, names being unique in the registry; no
\* other Programmer is probed, and flash() is called once, on the named
\* Programmer, with the binary path.
C14_ExplicitSelect ==
    /\ \A p, q \in Registry : get_name(p) = get_name(q) => p = q
    /\ \A p \in Registry :
         (args_interface = Some(get_name(p)) /\ args_bin \in fs /\ pc # "start")
           => /\ interfaces = <<p>>
              /\ \A i \in DOMAIN probeCalls : probeCalls[i] = p
              /\ Len(flashCalls) <= 1
              /\ pc # "flash_call" => flashCalls = << <<p, args_bin>> >>

C14_Witness ==
    /\ args_interface = Some("stlink")
    /\ pc = "done"
    /\ interfaces = <<3>>
    /\ probeCalls = <<>>
    /\ flashCalls = << <<3, args_bin>> >>

\* C15: the USB adapter's flash() called with no port cached probes first,
\* and when that probe returns false it returns false, launches no child
\* and reports no missing companion file; called with a port cached it
\* lists no devices, keeps the port and aims gdb at it.
C15_ProbeBeforeFlash ==
    [][ (pc = "flash_call" /\ interfaces = <<Blackmagic>> /\ pc' # "flash_call")
          => IF port = None
             THEN /\ probeCalls' = Append(probeCalls, Blackmagic)
                  /\ probeRet'[Blackmagic] = "false"
                       => /\ flashRet' = "false"
                          /\ procs' = procs
                          /\ ~MissingElfLogged'
             ELSE /\ probeCalls' = probeCalls
                  /\ ports' = ports
                  /\ port' = port
                  /\ procs' # procs
                       => Last(procs').argv[4] = <<"target", "extended-remote", port[1]>>
      ]_vars

C15_Witness ==
    /\ AutoProbe
    /\ pc = "blackmagic_flash_poll"
    /\ probeCalls = RegistryOrder
    /\ port # None
    /\ Last(procs).argv[4] = <<"target", "extended-remote", port[1]>>

\* ------------------------------- one BlackmagicUSBProgrammer on its own
\* lines 121-123: a fresh instance, outside any Main.flash
ProbeInit ==
    /\ args_bin = <<"fw", ".bin">>
    /\ args_interface = None
    /\ fs = {}
    /\ pc = "object"
    /\ idx = 0
    /\ found_programmers = <<>>
    /\ interfaces = <<>>
    /\ procs = <<>>
    /\ port = None
    /\ ports = {}
    /\ output = <<>>
    /\ log = <<>>
    /\ dots = FALSE
    /\ probeCalls = <<>>
    /\ flashCalls = <<>>
    /\ probeRet = [p \in Registry |-> "not called"]
    /\ flashRet = "not called"
    /\ ret = None
    /\ exc = None

\* lines 194-215: one more probe() on the instance, with whatever devices
\* are attached at that moment; a caller that catches the exception goes on
ProbeAgain ==
    /\ pc = "object"
    /\ Len(probeCalls) < MaxProbeCalls
    /\ \E ps \in SUBSET Devices, os \in OsNames :
         LET r == BlackmagicProbe(ps, os)
         IN /\ ports' = ps
            /\ port' = r.port
            /\ probeRet' = [probeRet EXCEPT ![Blackmagic] = ProbeOutcome(r)]
            /\ exc' = IF Raises(r) THEN Some(AmbiguityError) ELSE None
    /\ probeCalls' = Append(probeCalls, Blackmagic)
    /\ UNCHANGED << args_bin, args_interface, fs, pc, idx, found_programmers,
                    interfaces, procs, output, log, dots, flashCalls, flashRet, ret >>

ProbeSpec == ProbeInit /\ [][ProbeAgain]_vars

\* C16: the USB adapter's probe() with no matching device returns false,
\* does not raise and leaves the cached port as it was; with one matching
\* device it caches that device's path and returns true. The port is unset
\* before the first probe(), every probe() that returns true sets it to a
\* device it listed and every other probe() leaves it alone: so it is set
\* exactly if some probe() returned true, to the device of the last one.
C16_CachedPort ==
    /\ []((\A i \in DOMAIN probeCalls : probeCalls[i] # Blackmagic) => port = None)
    /\ [][ (Len(probeCalls') = Len(probeCalls) + 1 /\ Last(probeCalls') = Blackmagic)
             => LET n == Cardinality(ports')
                    returned == probeRet'[Blackmagic]
                IN /\ n = 0 => returned = "false" /\ port' = port
                   /\ n = 1 => returned = "true" /\ \A d \in ports' : port' = Some(d.device)
                   /\ returned = "true" => \E d \in ports' : port' = Some(d.device)
                   /\ returned # "true" => port' = port
         ]_vars

C16_Witness ==
    /\ Len(probeCalls) >= 2
    /\ ports = {}
    /\ probeRet[Blackmagic] = "false"
    /\ port # None

\* a step in which the USB adapter's flash() fails on the missing companion file
FlashFailsOnMissingElf ==
    /\ pc = "flash_call"
    /\ interfaces = <<Blackmagic>>
    /\ pc' # "flash_call"
    /\ Elf(args_bin) \notin fs
    /\ MissingElfLogged'

\* C17 as stated: when the USB adapter's flash() fails because the
\* companion file is missing, the cached port after the call is the cached
\* port before it, whatever it was before.
C17_AsStated == [][ FlashFailsOnMissingElf => port' = port ]_vars

\* C17 (amended): when the USB adapter's flash() fails because the
\* companion file is missing, it has launched no child; a port cached
\* before the call is unchanged and no devices were listed; with no port
\* cached before the call, flash() has probed and the device that probe
\* found is cached after the call.
C17_MissingElfPort ==
    [][ FlashFailsOnMissingElf
          => /\ procs' = procs
             /\ flashRet' = "false"
             /\ IF port # None
                THEN port' = port /\ ports' = ports /\ probeCalls' = probeCalls
                ELSE /\ probeRet'[Blackmagic] = "true"
                     /\ \E d \in ports' : port' = Some(d.device)
      ]_vars

C17_Witness ==
    /\ args_interface = Some("blackmagic_usb")
    /\ pc = "done"
    /\ Elf(args_bin) \notin fs
    /\ MissingElfLogged
    /\ probeCalls = <<Blackmagic>>
    /\ port # None

\* C19: if the USB adapter's probe() raises its device-ambiguity error
\* during auto-probe, the invocation is left by that exception: flash() is
\* called on no programmer and nothing is returned, also when programmers
\* earlier in the registry had probed true.
C19_AmbiguityAborts ==
    (AutoProbe /\ probeRet[Blackmagic] = "raised")
        => /\ pc = "raised"
           /\ exc = Some(AmbiguityError)
           /\ flashCalls = <<>>
           /\ flashRet = "not called"
           /\ ret = None

C19_Witness ==
    /\ AutoProbe
    /\ probeRet[Blackmagic] = "raised"
    /\ ProbedTrue # {}
    /\ found_programmers # <<>>
    /\ pc = "raised"

\* a running child that has more to write and finds every pipe it writes to full
Blocked(k) ==
    /\ procs[k].state = "running"
    /\ procs[k].pending > 0
    /\ \A fd \in {1, 2} : Len(procs[k][Route(procs[k], fd)]) >= PipeCap

\* the parent is in wait() (line 107) or in a poll() loop (lines 72, 172)
Waiting == pc \in {"probe_wait", "openocd_flash_poll", "blackmagic_flash_poll"}

\* C20 as stated: however much the child writes, the parent never waits
\* on a child that is itself blocked writing to a full pipe.
C20_AsStated == ~(Waiting /\ \E k \in DOMAIN procs : Blocked(k))

\* The steps of the Python process itself, as opposed to its children's.
MainStep ==
    \/ BinaryNotFound
    \/ ExplicitSelect
    \/ BeginSearch
    \/ ProbeOpenOCDLaunch
    \/ ProbeOpenOCDReturn
    \/ ProbeBlackmagic
    \/ Arbitrate
    \/ SelectIndexError
    \/ FlashOpenOCDLaunch
    \/ FlashPoll
    \/ FlashOpenOCDReturn
    \/ FlashBlackmagic
    \/ FlashBlackmagicReturn

\* Main.flash is straight-line code with bounded loops apart from the waits
\* on a child: the interpreter keeps executing it, so a step of it that
\* stays possible is taken. Nothing is assumed about the children.
LiveSpec == Spec /\ WF_vars(MainStep)

\* every launched child process eventually exits
ChildrenExit == (Running # {}) ~> (Running = {})

\* outcomes of an invocation: status 0, or status 1 / an exception
EndSuccess == pc = "done" /\ ret = Some(0)

EndFailure == (pc = "done" /\ ret = Some(1)) \/ pc = "raised"

\* the programmer the selection stage settled on, if it settled on one
Selected ==
    IF args_interface = None
    THEN Len(found_programmers) = 1 /\ interfaces = found_programmers
                                    /\ probeCalls = RegistryOrder
    ELSE interfaces = SelectByName(args_interface[1]) /\ probeCalls \in {<<>>, interfaces}

\* C18: flash() of a programmer is called only after the explicit
\* selection or the auto-probe has selected exactly one programmer, and on
\* that one; it is called at most once per invocation; an invocation
\* reports success only through it; and if every launched child process
\* eventually exits, every invocation eventually ends in Success or in
\* Failure (status 1 or an exception leaving Main.flash).
C18_StateMachine ==
    /\ [](flashCalls # <<>> => /\ args_bin \in fs
                               /\ Len(interfaces) = 1
                               /\ Selected
                               /\ flashCalls = << <<interfaces[1], args_bin>> >>)
    /\ [](Len(flashCalls) <= 1)
    /\ [](EndSuccess => flashRet = "true")
    /\ [](Ended <=> (EndSuccess \/ EndFailure))
    /\ (ChildrenExit => <>(EndSuccess \/ EndFailure))

C18_Witness ==
    /\ EndSuccess
    /\ args_interface = None
    /\ Len(procs) >= Len(programmers)
    /\ dots

====
